---- MODULE Spec2Model ----
(***************************************************************************)
(* The coarse mesh (cmesh) of t8code, src/src/t8_cmesh/t8_cmesh.c: one     *)
(* cmesh object on one MPI process, driven by an arbitrary sequence of     *)
(* calls of its public functions; and the ghost layer of a forest,         *)
(* src/src/t8_forest/t8_forest_ghost.cxx: one ghost object on the same     *)
(* process, built by t8_forest_ghost_create one loop iteration at a time.  *)
(*                                                                         *)
(* T8_ASSERT is modelled as active (debug build): a call whose assertion   *)
(* fails aborts and is recorded with outcome "fail"; none of the functions *)
(* writes to the cmesh before its last assertion, so a failed call leaves  *)
(* the cmesh as it was.  SC_ABORT is recorded as outcome "abort".          *)
(* Failures of the MPI calls themselves (SC_CHECK_MPI) are not modelled.   *)
(***************************************************************************)
EXTENDS Integers, Sequences, FiniteSets, TLC

VARIABLES cmesh,    \* the fields of t8_cmesh_struct_t
          pcmesh,   \* the caller's handle: "VALID", or "NULL" after teardown
          last,     \* the latest call: function, arguments, outcome, result
          forest,   \* what t8_forest_ghost_create reads of its forest
          ghost,    \* the fields of t8_forest_ghost_struct_t
          pghost,   \* forest->ghosts: "NULL", "VALID", or "DANGLING" once freed
          pos       \* the position and the locals of t8_forest_ghost_create

cvars == <<cmesh, pcmesh>>
gvars == <<forest, ghost, pghost, pos>>
vars == <<cmesh, pcmesh, last, forest, ghost, pghost, pos>>

----------------------------------------------------------------------------
(* Bounds of the model *)

MaxTrees == 2          \* Spec: largest tree count passed to a setter
MaxSize == 2           \* Spec: largest size of the world communicator
MaxSetTree == 2        \* Spec: largest number of successful set_tree calls
MaxRef == 2            \* largest reference count
MaxUniformTrees == 3   \* SpecUniform: largest tree count passed to set_num_trees
MaxUniformSize == 4    \* SpecUniform: largest size of the world communicator
MaxLevel == 2          \* SpecUniform: largest level passed to uniform_bounds
MaxLocalTrees == 2     \* ghost: largest number of local trees of the forest
MaxElements == 2       \* ghost: largest number of elements of the forest
MaxFaceChildren == 2   \* ghost: largest number of children of a face
MaxRanks == 3          \* ghost: size of the communicator of the forest
MaxFirstTree == 1      \* ghost: largest global id of the first local tree

----------------------------------------------------------------------------
(* Element classes *)

T8_ECLASS_LAST == "LAST"

EClass == {"VERTEX", "LINE", "QUAD", "TRIANGLE", "HEX", "TET", "PRISM", "PYRAMID"}

t8_eclass_to_dimension ==
  [e \in EClass |-> CASE e = "VERTEX" -> 0
                      [] e = "LINE" -> 1
                      [] e \in {"QUAD", "TRIANGLE"} -> 2
                      [] OTHER -> 3]

t8_eclass_num_faces ==
  [e \in EClass |-> CASE e = "VERTEX" -> 0
                      [] e = "LINE" -> 2
                      [] e = "QUAD" -> 4
                      [] e = "TRIANGLE" -> 3
                      [] e = "HEX" -> 6
                      [] e = "TET" -> 4
                      [] e = "PRISM" -> 5
                      [] OTHER -> 5]

\* the element classes the setter calls of the model draw from
EClassInputs == {"TRIANGLE", "TET", "PYRAMID"}

----------------------------------------------------------------------------
(* Communicators *)

sc_MPI_COMM_NULL == "NULL"
sc_MPI_COMM_WORLD == "WORLD"
sc_MPI_COMM_SELF == "SELF"

CommInputs == {sc_MPI_COMM_NULL, sc_MPI_COMM_WORLD, sc_MPI_COMM_SELF}

\* sc_MPI_Comm_dup: a new handle for the same group of processes
sc_MPI_Comm_dup(comm) ==
  IF comm = sc_MPI_COMM_SELF THEN "DUP_SELF" ELSE "DUP_WORLD"

\* the (size, rank) pairs of communicators of at most max processes
SizeRank(max) == {sr \in (1..max) \X (0..(max - 1)) : sr[2] < sr[1]}

\* sc_MPI_Comm_size and sc_MPI_Comm_rank can report the size and rank sr for comm
CommSizeRank(comm, sr) ==
  /\ sr[1] >= 1 /\ 0 <= sr[2] /\ sr[2] < sr[1]
  /\ comm \in {sc_MPI_COMM_SELF, "DUP_SELF"} => sr = <<1, 0>>

----------------------------------------------------------------------------
(* Arithmetic of C *)

Abs(x) == IF x < 0 THEN -x ELSE x

\* integer division and float-to-integer conversion of C round toward zero
TruncDiv(a, b) ==
  LET q == Abs(a) \div Abs(b)
  IN IF (a < 0) = (b < 0) THEN q ELSE -q

\* values a shift by a negative count (undefined behaviour) is modelled to give
UndefinedShift == {-2, 0, 2}

----------------------------------------------------------------------------
(* The cmesh *)

\* a slot of the tree array that sc_array_new_size allocated and nobody wrote
UninitTree == [treeid |-> "uninit", eclass |-> "uninit", face_neighbors |-> "uninit"]

\* what reading the eclass of an unwritten slot can give: the first element
\* class (zeroed memory), the sentinel, or a value outside the enumeration
UninitEClassValues == {"VERTEX", T8_ECLASS_LAST, "GARBAGE"}

sc_array_new_size(n) == [i \in 1..n |-> UninitTree]

\* the face neighbors of a tree as set_tree leaves them
InvalidNeighbors(num_neighbors) ==
  [i \in 1..num_neighbors |->
     [eclass |-> T8_ECLASS_LAST, treeid |-> -1, tree_to_face |-> -1]]

t8_cmesh_init ==
  [committed |-> 0,
   dimension |-> -1,
   do_dup |-> 0,
   set_partitioned |-> 0,
   mpicomm |-> sc_MPI_COMM_WORLD,
   mpirank |-> -1,
   mpisize |-> -1,
   rc |-> 1,
   num_trees |-> 0,
   num_local_trees |-> 0,
   num_ghosts |-> 0,
   num_trees_per_eclass |-> [e \in EClass |-> 0],
   ctrees |-> <<>>,           \* <<>> is NULL, <<a>> points to the array a
   first_tree |-> 0]

NoCall == [op |-> "init", arg |-> <<>>, outcome |-> "ok", res |-> <<>>, locals |-> <<>>]

\* a call of a cmesh function; the ghost layer is not touched
Call(op, arg, outcome, res) ==
  /\ last' = [op |-> op, arg |-> arg, outcome |-> outcome, res |-> res, locals |-> <<>>]
  /\ UNCHANGED gvars

\* a call that stops at a failed T8_ASSERT
Fail(op, arg) ==
  /\ Call(op, arg, "fail", <<>>)
  /\ UNCHANGED <<cmesh, pcmesh>>

\* no forest is attached and no ghost layer exists
NoForest ==
  [mpirank |-> 0, mpisize |-> 1, first_local_tree_id |-> 0,
   first_local_tree_id_high |-> 0, first_tree_shared |-> FALSE, last_tree_shared |-> FALSE,
   first_ctreeid |-> 0, eclass |-> "LINE", trees |-> <<>>, face_neighbors |-> <<>>]

NoGhost ==
  [rc |-> 0, ghost_trees |-> <<>>, global_tree_to_ghost_tree |-> {},
   remote_ghosts |-> <<>>, remote_processes |-> <<>>]

Idle ==
  [phase |-> "idle", itree |-> 0, ielem |-> 0, iface |-> 0,
   ichild |-> 0, num_face_children |-> 0, max_num_face_children |-> 0, neigh_scheme |-> "uninit", half_neighbors |-> "uninit"]

Init ==
  /\ cmesh = t8_cmesh_init
  /\ pcmesh = "VALID"
  /\ last = NoCall
  /\ forest = NoForest
  /\ ghost = NoGhost
  /\ pghost = "NULL"
  /\ pos = Idle

----------------------------------------------------------------------------
(* Configuring-phase functions *)

set_mpicomm_asserts(mpicomm) ==
  /\ cmesh.rc > 0
  /\ cmesh.committed = 0
  /\ cmesh.mpicomm = sc_MPI_COMM_WORLD
  /\ mpicomm # sc_MPI_COMM_NULL

t8_cmesh_set_mpicomm(mpicomm, do_dup) ==
  /\ pcmesh = "VALID"
  /\ IF set_mpicomm_asserts(mpicomm)
       THEN /\ cmesh' = [cmesh EXCEPT !.mpicomm = mpicomm, !.do_dup = do_dup]
            /\ Call("set_mpicomm", <<>>, "ok", <<>>)
            /\ UNCHANGED pcmesh
       ELSE Fail("set_mpicomm", <<>>)

\* the assertions of set_num_trees, on the cmesh c it is called with
set_num_trees_asserts(c, num_trees) ==
  /\ c.committed = 0
  /\ IF c.set_partitioned # 0
       THEN c.num_trees > 0 /\ c.num_local_trees = 0
       ELSE num_trees > 0 /\ c.num_trees = 0

\* the cmesh that set_num_trees leaves when its assertions hold
set_num_trees_result(c, num_trees) ==
  IF c.set_partitioned # 0
    THEN [c EXCEPT !.num_local_trees = num_trees,
                   !.ctrees = <<sc_array_new_size(num_trees)>>]
    ELSE [c EXCEPT !.num_trees = num_trees,
                   !.num_local_trees = num_trees,
                   !.ctrees = <<sc_array_new_size(num_trees)>>]

t8_cmesh_set_num_trees(num_trees) ==
  /\ pcmesh = "VALID"
  /\ IF set_num_trees_asserts(cmesh, num_trees)
       THEN /\ cmesh' = set_num_trees_result(cmesh, num_trees)
            /\ Call("set_num_trees", <<>>, "ok", <<>>)
            /\ UNCHANGED pcmesh
       ELSE Fail("set_num_trees", <<>>)

\* set_partitioned without the assertion of line 121
set_partitioned_asserts_flag_unchecked ==
  /\ cmesh.committed = 0
  /\ cmesh.num_trees = 0
  /\ cmesh.num_local_trees = 0
  /\ cmesh.first_tree = 0

set_partitioned_asserts ==
  /\ cmesh.committed = 0
  /\ cmesh.set_partitioned = 0
  /\ cmesh.num_trees = 0
  /\ cmesh.num_local_trees = 0
  /\ cmesh.first_tree = 0

\* set_partitioned storing first_local_tree and num_ghosts in replicated mode
set_partitioned_keeping_arguments(set_partitioned, num_global_trees, first_local_tree, num_ghosts) ==
  LET arg == <<set_partitioned, num_global_trees, first_local_tree, num_ghosts>>
      c1 == [cmesh EXCEPT !.set_partitioned = set_partitioned,
                          !.first_tree = first_local_tree,
                          !.num_ghosts = num_ghosts]
      ok == /\ set_partitioned_asserts
            /\ set_partitioned = 0 => set_num_trees_asserts(c1, num_global_trees)
  IN /\ pcmesh = "VALID"
     /\ IF ok
          THEN /\ cmesh' = IF set_partitioned = 0
                             THEN set_num_trees_result(c1, num_global_trees)
                             ELSE [c1 EXCEPT !.num_trees = num_global_trees]
               /\ Call("set_partitioned", arg, "ok", <<>>)
               /\ UNCHANGED pcmesh
          ELSE Fail("set_partitioned", <<>>)

t8_cmesh_set_partitioned(set_partitioned, num_global_trees, first_local_tree, num_ghosts) ==
  LET arg == <<set_partitioned, num_global_trees, first_local_tree, num_ghosts>>
      \* line 126 writes the flag before the branch
      c1 == [cmesh EXCEPT !.set_partitioned = set_partitioned]
  IN /\ pcmesh = "VALID"
     /\ IF ~set_partitioned_asserts
          THEN Fail("set_partitioned", <<>>)
          ELSE IF set_partitioned = 0
            THEN IF set_num_trees_asserts(c1, num_global_trees)
                   THEN /\ cmesh' = set_num_trees_result(c1, num_global_trees)
                        /\ Call("set_partitioned", arg, "ok", <<>>)
                        /\ UNCHANGED pcmesh
                   ELSE \* c1 = cmesh here: the flag was 0 already
                        Fail("set_partitioned", <<>>)
            ELSE /\ cmesh' = [c1 EXCEPT !.num_trees = num_global_trees,
                                        !.first_tree = first_local_tree,
                                        !.num_ghosts = num_ghosts]
                 /\ Call("set_partitioned", arg, "ok", <<>>)
                 /\ UNCHANGED pcmesh

t8_cmesh_tree_id_is_valid(c, tree_id) ==
  IF c.set_partitioned # 0
    THEN c.first_tree < tree_id /\ tree_id < c.first_tree + c.num_local_trees
    ELSE 0 <= tree_id /\ tree_id < c.num_trees

t8_cmesh_tree_index(c, tree_id) ==
  IF c.set_partitioned # 0 THEN tree_id - c.first_tree ELSE tree_id

\* the number of set_tree calls that succeeded so far
NumSetTree ==
  LET RECURSIVE Sum(_)
      Sum(S) == IF S = {} THEN 0
                ELSE LET e == CHOOSE x \in S : TRUE
                     IN cmesh.num_trees_per_eclass[e] + Sum(S \ {e})
  IN Sum(EClass)

\* set_tree without the assertion of line 203
set_tree_asserts_uncommitted_unchecked(tree_id, tree_class) ==
  /\ t8_cmesh_tree_id_is_valid(cmesh, tree_id)
  /\ cmesh.dimension # -1 => t8_eclass_to_dimension[tree_class] = cmesh.dimension

\* set_tree without the assertion of lines 206-207
set_tree_asserts_any_dimension(tree_id, tree_class) ==
  /\ cmesh.committed = 0
  /\ t8_cmesh_tree_id_is_valid(cmesh, tree_id)

set_tree_asserts(tree_id, tree_class) ==
  /\ cmesh.committed = 0
  /\ t8_cmesh_tree_id_is_valid(cmesh, tree_id)
  /\ cmesh.dimension # -1 => t8_eclass_to_dimension[tree_class] = cmesh.dimension

t8_cmesh_set_tree(tree_id, tree_class) ==
  LET index == t8_cmesh_tree_index(cmesh, tree_id) + 1   \* sequences start at 1
      tree == [treeid |-> tree_id,
               eclass |-> tree_class,
               face_neighbors |-> InvalidNeighbors(t8_eclass_num_faces[tree_class])]
  IN /\ pcmesh = "VALID"
     /\ IF set_tree_asserts(tree_id, tree_class)
          THEN /\ cmesh' = [cmesh EXCEPT
                     !.dimension = IF @ = -1 THEN t8_eclass_to_dimension[tree_class]
                                   ELSE @,
                     !.num_trees_per_eclass[tree_class] = @ + 1,
                     !.ctrees[1][index] = tree]
               /\ Call("set_tree", <<tree_id>>, "ok", <<>>)
               /\ UNCHANGED pcmesh
          ELSE Fail("set_tree", <<tree_id>>)

\* join_faces as it is documented: the slot of the face of the first tree
\* is connected to the second tree
join_faces_connecting(tree1, tree2, face1, face2, orientation) ==
  LET index == t8_cmesh_tree_index(cmesh, tree1) + 1
  IN /\ pcmesh = "VALID"
     /\ IF /\ cmesh.ctrees # <<>>
           /\ index \in 1..Len(cmesh.ctrees[1])
           /\ cmesh.ctrees[1][index].eclass \in EClass
           /\ face1 < t8_eclass_num_faces[cmesh.ctrees[1][index].eclass]
          THEN /\ cmesh' = [cmesh EXCEPT !.ctrees[1][index].face_neighbors[face1 + 1] =
                                [eclass |-> cmesh.ctrees[1][index].eclass,
                                 treeid |-> tree2,
                                 tree_to_face |-> face2]]
               /\ Call("join_faces", <<>>, "ok", <<>>)
               /\ UNCHANGED pcmesh
          ELSE /\ Call("join_faces", <<>>, "abort", <<>>)
               /\ UNCHANGED <<cmesh, pcmesh>>

\* line 238: SC_ABORT before anything else
t8_cmesh_join_faces(tree1, tree2, face1, face2, orientation) ==
  /\ pcmesh = "VALID"
  /\ Call("join_faces", <<>>, "abort", <<>>)
  /\ UNCHANGED <<cmesh, pcmesh>>

\* commit without the assertion of line 256
commit_asserts_recommit ==
  /\ cmesh.mpicomm # sc_MPI_COMM_NULL
  /\ cmesh.num_trees > 0

commit_asserts ==
  /\ cmesh.mpicomm # sc_MPI_COMM_NULL
  /\ cmesh.committed = 0
  /\ cmesh.num_trees > 0

\* the cmesh that commit leaves when its assertions hold and the final
\* communicator reports the size and rank sr
commit_result(c, sr) ==
  [c EXCEPT !.committed = 1,
            !.mpicomm = IF c.do_dup # 0 THEN sc_MPI_Comm_dup(c.mpicomm) ELSE @,
            !.mpisize = sr[1],
            !.mpirank = sr[2]]

\* the communicator commit queries for size and rank
FinalComm(c) == IF c.do_dup # 0 THEN sc_MPI_Comm_dup(c.mpicomm) ELSE c.mpicomm

\* sr: the size and rank the communicator reports
t8_cmesh_commit(sr) ==
  /\ pcmesh = "VALID"
  /\ CommSizeRank(FinalComm(cmesh), sr)
  /\ IF commit_asserts
       THEN /\ cmesh' = commit_result(cmesh, sr)
            /\ Call("commit", <<>>, "ok", <<>>)
            /\ UNCHANGED pcmesh
       ELSE Fail("commit", <<>>)

----------------------------------------------------------------------------
(* Queries *)

Query(op, arg, res) ==
  /\ Call(op, arg, "ok", res)
  /\ UNCHANGED <<cmesh, pcmesh>>

get_mpicomm_asserts ==
  /\ cmesh.rc > 0
  /\ cmesh.mpicomm # sc_MPI_COMM_NULL

t8_cmesh_get_mpicomm ==
  /\ pcmesh = "VALID"
  /\ IF get_mpicomm_asserts
       THEN Query("get_mpicomm", <<>>, <<cmesh.mpicomm, cmesh.do_dup>>)
       ELSE Fail("get_mpicomm", <<>>)

get_num_trees_asserts == cmesh.committed # 0

t8_cmesh_get_num_trees ==
  /\ pcmesh = "VALID"
  /\ IF get_num_trees_asserts
       THEN Query("get_num_trees", <<>>, <<cmesh.num_trees>>)
       ELSE Fail("get_num_trees", <<>>)

get_local_num_trees_asserts == cmesh.committed # 0

t8_cmesh_get_local_num_trees ==
  /\ pcmesh = "VALID"
  /\ IF get_local_num_trees_asserts
       THEN Query("get_local_num_trees", <<>>,
                  <<IF cmesh.set_partitioned # 0 THEN cmesh.num_local_trees
                    ELSE cmesh.num_trees>>)
       ELSE Fail("get_local_num_trees", <<>>)

get_tree_class_asserts(tree_id) ==
  /\ cmesh.committed # 0
  /\ t8_cmesh_tree_id_is_valid(cmesh, tree_id)

t8_cmesh_get_tree_class(tree_id) ==
  LET tree == cmesh.ctrees[1][t8_cmesh_tree_index(cmesh, tree_id) + 1]
  IN /\ pcmesh = "VALID"
     /\ IF get_tree_class_asserts(tree_id)
          THEN IF tree.eclass = UninitTree.eclass
                 THEN \* a read of memory that was never written
                      \E e \in UninitEClassValues :
                        Query("get_tree_class", <<tree_id>>, <<e>>)
                 ELSE Query("get_tree_class", <<tree_id>>, <<tree.eclass>>)
          ELSE Fail("get_tree_class", <<tree_id>>)

----------------------------------------------------------------------------
(* Uniform partition bounds *)

\* one << n: the values the shift can give
ShiftLeftOne(n) == IF n >= 0 THEN {2^n} ELSE UndefinedShift

first_global_child(global_num_children, mpirank, mpisize) ==
  IF mpirank = 0 THEN 0
  ELSE TruncDiv(global_num_children * mpirank, mpisize)

\* the share of a rank rounded up instead of down
last_global_child_ceil(global_num_children, mpirank, mpisize) ==
  IF mpirank # mpisize - 1
    THEN TruncDiv(global_num_children * (mpirank + 1) + mpisize - 1, mpisize)
    ELSE global_num_children

last_global_child(global_num_children, mpirank, mpisize) ==
  IF mpirank # mpisize - 1
    THEN TruncDiv(global_num_children * (mpirank + 1), mpisize)
    ELSE global_num_children

\* lines 359-362
uniform_bounds_asserts(first, lastc, global_num_children) ==
  /\ 0 <= first /\ first <= global_num_children
  /\ 0 <= lastc /\ lastc <= global_num_children

\* the last tree taken from last_global_child instead of last_global_child - 1
uniform_bounds_values_end_tree(first, lastc, children_per_tree) ==
  LET first_local_tree == TruncDiv(first, children_per_tree)
      child_in_tree_begin == first - first_local_tree * children_per_tree
      last_local_tree == IF first < lastc
                           THEN TruncDiv(lastc, children_per_tree)
                           ELSE first_local_tree
      child_in_tree_end == IF last_local_tree > 0
                             THEN lastc - last_local_tree * children_per_tree
                             ELSE lastc
  IN <<first_local_tree, child_in_tree_begin, last_local_tree, child_in_tree_end>>

\* the last tree computed without the test for an empty processor
uniform_bounds_values_no_empty(first, lastc, children_per_tree) ==
  LET first_local_tree == TruncDiv(first, children_per_tree)
      child_in_tree_begin == first - first_local_tree * children_per_tree
      last_local_tree == TruncDiv(lastc - 1, children_per_tree)
      child_in_tree_end == IF last_local_tree > 0
                             THEN lastc - last_local_tree * children_per_tree
                             ELSE lastc
  IN <<first_local_tree, child_in_tree_begin, last_local_tree, child_in_tree_end>>

\* lines 363-379: the four values returned for a child range of the rank
uniform_bounds_values(first, lastc, children_per_tree) ==
  LET first_local_tree == TruncDiv(first, children_per_tree)
      child_in_tree_begin == first - first_local_tree * children_per_tree
      last_local_tree == IF first < lastc
                           THEN TruncDiv(lastc - 1, children_per_tree)
                           ELSE first_local_tree
      child_in_tree_end == IF last_local_tree > 0
                             THEN lastc - last_local_tree * children_per_tree
                             ELSE lastc
  IN <<first_local_tree, child_in_tree_begin, last_local_tree, child_in_tree_end>>

\* uniform_bounds without the test of line 326
uniform_bounds_call_hybrid(c, level, children_per_tree) ==
  LET global_num_children == c.num_trees * children_per_tree
      first == first_global_child(global_num_children, c.mpirank, c.mpisize)
      lastc == last_global_child(global_num_children, c.mpirank, c.mpisize)
      locals == [children_per_tree |-> children_per_tree,
                 first_global_child |-> first,
                 last_global_child |-> lastc]
  IN IF ~uniform_bounds_asserts(first, lastc, global_num_children)
       THEN [outcome |-> "fail", res |-> <<>>, locals |-> locals]
     ELSE IF children_per_tree = 0
       THEN [outcome |-> "crash", res |-> <<>>, locals |-> locals]
     ELSE [outcome |-> "ok",
           res |-> uniform_bounds_values(first, lastc, children_per_tree),
           locals |-> locals]

\* the outcome and result of uniform_bounds on the cmesh c when the shift
\* of line 335 gives children_per_tree
uniform_bounds_call(c, level, children_per_tree) ==
  LET global_num_children == c.num_trees * children_per_tree
      first == first_global_child(global_num_children, c.mpirank, c.mpisize)
      lastc == last_global_child(global_num_children, c.mpirank, c.mpisize)
      locals == [children_per_tree |-> children_per_tree,
                 first_global_child |-> first,
                 last_global_child |-> lastc]
  IN IF c.num_trees_per_eclass["PYRAMID"] # 0
       THEN [outcome |-> "abort", res |-> <<>>, locals |-> <<>>]
     ELSE IF ~uniform_bounds_asserts(first, lastc, global_num_children)
       THEN [outcome |-> "fail", res |-> <<>>, locals |-> locals]
     ELSE IF children_per_tree = 0
       THEN \* integer division by zero in line 363
            [outcome |-> "crash", res |-> <<>>, locals |-> locals]
     ELSE [outcome |-> "ok",
           res |-> uniform_bounds_values(first, lastc, children_per_tree),
           locals |-> locals]

t8_cmesh_uniform_bounds(level) ==
  /\ pcmesh = "VALID"
  /\ \E children_per_tree \in ShiftLeftOne(cmesh.dimension * level) :
       LET r == uniform_bounds_call(cmesh, level, children_per_tree)
       IN last' = [op |-> "uniform_bounds", arg |-> <<level>>,
                   outcome |-> r.outcome, res |-> r.res, locals |-> r.locals]
  /\ UNCHANGED <<cmesh, pcmesh>>
  /\ UNCHANGED gvars

----------------------------------------------------------------------------
(* Reference counting and teardown *)

t8_cmesh_ref ==
  /\ pcmesh = "VALID"
  /\ cmesh.rc < MaxRef
  /\ cmesh' = [cmesh EXCEPT !.rc = @ + 1]
  /\ Call("ref", <<>>, "ok", <<>>)
  /\ UNCHANGED pcmesh

\* t8_cmesh_reset freeing the communicator of every cmesh with do_dup
reset_comm_free_uncommitted(c) == IF c.do_dup # 0 THEN <<c.mpicomm>> ELSE <<>>

\* lines 399-402 of t8_cmesh_reset: the communicator handed to
\* sc_MPI_Comm_free, <<>> if there is none
reset_comm_free(c) ==
  IF c.do_dup # 0 /\ c.committed # 0 THEN <<c.mpicomm>> ELSE <<>>

\* lines 403-411 of t8_cmesh_reset: the face_neighbors pointers of the tree
\* array handed to T8_FREE, one for each of the num_local_trees slots: the
\* array that set_tree allocated (lines 226-227), or a pointer that was
\* never written
reset_tree_free(c) ==
  IF c.ctrees = <<>> THEN <<>>
  ELSE [ti \in 1..c.num_local_trees |->
          IF c.ctrees[1][ti].eclass = "uninit" THEN "uninit" ELSE "face_neighbors"]

\* t8_cmesh_unref, with t8_cmesh_reset when the count reaches zero; the
\* result is what the reset handed to sc_MPI_Comm_free, the locals are what
\* it handed to T8_FREE in the loop over the trees.  free is what becomes
\* of T8_FREE on a pointer that was never written
t8_cmesh_unref(free) ==
  LET pointers == IF cmesh.rc = 1 THEN reset_tree_free(cmesh) ELSE <<>>
      wild == \E ti \in 1..Len(pointers) : pointers[ti] = "uninit"
  IN /\ pcmesh = "VALID"
     /\ cmesh' = [cmesh EXCEPT !.rc = @ - 1]
     /\ pcmesh' = IF cmesh.rc = 1 THEN "NULL" ELSE "VALID"
     /\ last' = [op |-> "unref", arg |-> <<>>,
                 outcome |-> IF wild /\ free = "crash" THEN "crash" ELSE "ok",
                 res |-> IF cmesh.rc = 1 THEN reset_comm_free(cmesh) ELSE <<>>,
                 locals |-> pointers]
     /\ UNCHANGED gvars

----------------------------------------------------------------------------
(* Constructors *)

num_trees_for_hypercube ==
  [e \in EClass |-> CASE e \in {"VERTEX", "LINE", "QUAD", "HEX"} -> 1
                      [] e \in {"TRIANGLE", "PRISM"} -> 2
                      [] e = "TET" -> 6
                      [] OTHER -> 3]

\* t8_cmesh_new_hypercube: init, set_mpicomm, set_num_trees, set_tree for
\* every tree, commit
t8_cmesh_new_hypercube(eclass, comm, do_dup, sr) ==
  LET n == num_trees_for_hypercube[eclass]
      tree == [i \in 1..n |->
                 [treeid |-> i - 1,
                  eclass |-> eclass,
                  face_neighbors |-> InvalidNeighbors(t8_eclass_num_faces[eclass])]]
      c == [t8_cmesh_init EXCEPT
              !.mpicomm = comm,
              !.do_dup = do_dup,
              !.num_trees = n,
              !.num_local_trees = n,
              !.dimension = t8_eclass_to_dimension[eclass],
              !.num_trees_per_eclass[eclass] = n,
              !.ctrees = <<tree>>]
  IN /\ pcmesh = "VALID"
     /\ cmesh = t8_cmesh_init
     /\ last = NoCall
     /\ comm # sc_MPI_COMM_NULL
     /\ CommSizeRank(FinalComm(c), sr)
     /\ cmesh' = commit_result(c, sr)
     /\ Call("new_hypercube", <<>>, "ok", <<>>)
     /\ UNCHANGED pcmesh

----------------------------------------------------------------------------
(* The ghost layer: t8_forest_ghost_create and what it calls *)

\* a step of t8_forest_ghost_create or a call of a ghost function; the
\* cmesh is not touched
GhostCall(op, arg, outcome) ==
  /\ last' = [op |-> op, arg |-> arg, outcome |-> outcome, res |-> <<>>, locals |-> <<>>]
  /\ UNCHANGED cvars

\* a call of a ghost function that releases the buffers res
GhostRelease(op, arg, outcome, res) ==
  /\ last' = [op |-> op, arg |-> arg, outcome |-> outcome, res |-> res, locals |-> <<>>]
  /\ UNCHANGED cvars

\* ---- what the forest and the element schemes answer ----

t8_forest_get_num_local_trees(f) == Len(f.trees)

t8_forest_get_tree_element_count(f, itree) == Len(f.trees[itree + 1])

t8_forest_get_tree_element(f, itree, ielem) == f.trees[itree + 1][ielem + 1]

\* the cmesh local id of the coarse tree of the local tree itree
t8_forest_get_coarse_tree_id(f, itree) ==
  itree + f.first_local_tree_id - f.first_ctreeid

\* the cmesh local ids of the face neighbors of the coarse tree of the
\* local tree itree
t8_forest_get_coarse_tree_ext(f, itree) == f.face_neighbors[itree + 1]

\* the forest local id of the cmesh local tree, -1 if the forest does not
\* own a part of it
t8_forest_cmesh_ltreeid_to_ltreeid(f, lctreeid) ==
  LET ltreeid == lctreeid + f.first_ctreeid - f.first_local_tree_id
  IN IF 0 <= ltreeid /\ ltreeid < t8_forest_get_num_local_trees(f)
       THEN ltreeid ELSE -1

\* ---- the ghost tree store ----

t8_forest_ghost_init ==
  [rc |-> 1, ghost_trees |-> <<>>, global_tree_to_ghost_tree |-> {},
   remote_ghosts |-> <<>>, remote_processes |-> <<>>]

t8_ghost_tree_compare(A, B) ==
  IF A.global_id < B.global_id THEN -1
  ELSE IF A.global_id # B.global_id THEN 1 ELSE 0

\* the element class that add_tree stores: line 229 and line 233 read
\* lctree_id, which is never written, so either branch of line 233 can be
\* taken whatever the tree is; the branch that does not fit the tree reads
\* a class that is not the tree's
AddTreeClasses(f) == {f.eclass, "GARBAGE"}

\* what can become of one call of add_tree: the assertion of line 229
\* fails, or the call stores one of the classes
AddTreeOutcomes(f) == {"fail"} \cup AddTreeClasses(f)

\* t8_forest_ghost_add_tree past line 242, with the class it read
t8_forest_ghost_add_tree(g, gtreeid, eclass) ==
  IF \E h \in g.global_tree_to_ghost_tree : h.global_id = gtreeid
    THEN g
    ELSE [g EXCEPT
            !.ghost_trees = Append(@, [global_id |-> gtreeid, eclass |-> eclass]),
            !.global_tree_to_ghost_tree =
               @ \cup {[global_id |-> gtreeid, index |-> Len(g.ghost_trees)]}]

\* a sequence of add_tree calls: gtreeids[i] with the outcome outcomes[i]
RECURSIVE ghost_add_trees(_, _, _)
ghost_add_trees(g, gtreeids, outcomes) ==
  IF gtreeids = <<>> THEN g
  ELSE ghost_add_trees(t8_forest_ghost_add_tree(g, Head(gtreeids), Head(outcomes)),
                       Tail(gtreeids), Tail(outcomes))

\* sc_array_sort without effect
sc_array_sort_unsorted(a) == a

\* sc_array_sort with t8_ghost_tree_compare
RECURSIVE sc_array_sort(_)
sc_array_sort(a) ==
  IF a = <<>> THEN <<>>
  ELSE LET i == CHOOSE i \in 1..Len(a) :
                  \A j \in 1..Len(a) : t8_ghost_tree_compare(a[i], a[j]) <= 0
           rest == [k \in 1..(Len(a) - 1) |-> IF k < i THEN a[k] ELSE a[k + 1]]
       IN <<a[i]>> \o sc_array_sort(rest)

\* lines 336-351: every entry of the hash table gets the position of its
\* tree in the sorted array
ghost_reset_index(g) ==
  [g EXCEPT !.global_tree_to_ghost_tree =
     {[h EXCEPT !.index =
          IF \E it \in 1..Len(g.ghost_trees) : g.ghost_trees[it].global_id = h.global_id
            THEN (CHOOSE it \in 1..Len(g.ghost_trees) :
                    g.ghost_trees[it].global_id = h.global_id) - 1
            ELSE @] : h \in @}]

\* ---- the remote store ----

\* A t8_gloidx_t has 64 bits and the integers here have 32: a global tree
\* id is held as the pair of its part above 2^31 and its part below, and
\* stands for high * 2^31 + low with 0 <= low < 2^31.
gloidx(high, low) == [high |-> high, low |-> low]

\* the global id of the local tree ltreeid (line 394)
ghost_gtreeid(f, ltreeid) ==
  gloidx(f.first_local_tree_id_high, f.first_local_tree_id + ltreeid)

\* line 367: a t8_gloidx_t is stored in the t8_locidx_t global_id of a
\* remote tree (line 61), which keeps its 32 low bits as a signed number
gloidx_to_locidx(g) ==
  IF g.high % 2 = 0 THEN g.low ELSE g.low - 2147483647 - 1

\* line 432: the t8_locidx_t is widened to 64 bits with its sign
locidx_to_gloidx(l) ==
  IF l >= 0 THEN gloidx(0, l) ELSE gloidx(-1, l + 2147483647 + 1)

t8_ghost_init_remote_tree(f, gtreeid, eclass) ==
  [global_id |-> gloidx_to_locidx(gtreeid), eclass |-> f.eclass, elements |-> <<>>]

\* lines 454-457: the element is the one stored last
ghost_same_element(a, b) == a.level = b.level /\ a.id = b.id

\* the position of the rank in the remote_ghosts array, 0 if it has none
remote_index(g, remote_rank) ==
  IF \E i \in 1..Len(g.remote_ghosts) : g.remote_ghosts[i].remote_rank = remote_rank
    THEN CHOOSE i \in 1..Len(g.remote_ghosts) :
           g.remote_ghosts[i].remote_rank = remote_rank
    ELSE 0

t8_ghost_add_remote(g, f, remote_rank, ltreeid, elem) ==
  LET gtreeid == ghost_gtreeid(f, ltreeid)
      new_tree == t8_ghost_init_remote_tree(f, gtreeid, f.eclass)
      index == remote_index(g, remote_rank)
      \* lines 403-438: the bundle of the rank has the tree as its last one
      g1 == IF index = 0
              THEN [g EXCEPT
                      !.remote_ghosts =
                         Append(@, [remote_rank |-> remote_rank,
                                    remote_trees |-> <<new_tree>>]),
                      !.remote_processes = Append(@, remote_rank)]
              ELSE LET trees == g.remote_ghosts[index].remote_trees
                   IN IF locidx_to_gloidx(trees[Len(trees)].global_id) # gtreeid
                        THEN [g EXCEPT !.remote_ghosts[index].remote_trees =
                                          Append(@, new_tree)]
                        ELSE g
      index1 == remote_index(g1, remote_rank)
      itree == Len(g1.remote_ghosts[index1].remote_trees)
      elements == g1.remote_ghosts[index1].remote_trees[itree].elements
  IN IF elements = <<>> \/ ~ghost_same_element(elements[Len(elements)], elem)
       THEN [g1 EXCEPT !.remote_ghosts[index1].remote_trees[itree].elements =
                          Append(@, elem)]
       ELSE g1

\* lines 549-552 without the test of line 549
ghost_add_owner_any(g, f, owner, ltreeid, elem) ==
  t8_ghost_add_remote(g, f, owner, ltreeid, elem)

\* lines 549-552: the element is a remote element of the owner of a half
\* face neighbor, unless this process owns it
ghost_add_owner(g, f, owner, ltreeid, elem) ==
  IF owner # f.mpirank THEN t8_ghost_add_remote(g, f, owner, ltreeid, elem) ELSE g

\* ---- the loops of ghost_create ----

\* the iterations of the loops of lines 312-329: <<itree, iface>>
CoarsePositions(f) ==
  {<<itree, iface>> : itree \in 0..(t8_forest_get_num_local_trees(f) - 1),
                      iface \in 0..(t8_eclass_num_faces[f.eclass] - 1)}

\* the iterations of the loops of lines 496-558: <<itree, ielem, iface>>
ScanPositions(f) ==
  {p \in (0..(t8_forest_get_num_local_trees(f) - 1))
           \X (0..(MaxElements - 1)) \X (0..(t8_eclass_num_faces[f.eclass] - 1)) :
     p[2] < t8_forest_get_tree_element_count(f, p[1])}

\* the order of the iterations
RECURSIVE Before(_, _)
Before(p, q) ==
  IF p = <<>> THEN FALSE
  ELSE Head(p) < Head(q) \/ (Head(p) = Head(q) /\ Before(Tail(p), Tail(q)))

\* the first iteration of P that comes after p, <<>> if there is none
NextPosition(P, p) ==
  LET later == {q \in P : Before(p, q)}
  IN IF later = {} THEN <<>>
     ELSE CHOOSE q \in later : \A r \in later : r = q \/ Before(q, r)

\* the position record of the next iteration of the coarse loop, the sort
\* when there is none
AfterCoarse(f, p) ==
  LET q == NextPosition(CoarsePositions(f), p)
  IN IF q = <<>> THEN [pos EXCEPT !.phase = "sort"]
     ELSE [pos EXCEPT !.phase = "coarse", !.itree = q[1], !.iface = q[2]]

\* the position record of the next iteration of the element loop with the
\* locals l, the clean-up when there is none.  num_face_children and ichild
\* are written before they are read in every iteration (lines 518 and 542):
\* the record keeps them inside the loop of the half face neighbors only
AfterScan(f, p, l) ==
  LET q == NextPosition(ScanPositions(f), p)
      m == [l EXCEPT !.ichild = 0, !.num_face_children = 0]
  IN IF q = <<>> THEN [m EXCEPT !.phase = "cleanup"]
     ELSE [m EXCEPT !.phase = "scan", !.itree = q[1], !.ielem = q[2], !.iface = q[3]]

\* lines 487-491: t8_forest_ghost_init on forest->ghosts
ghost_create_init(f) ==
  /\ pghost = "NULL"
  /\ pos.phase = "idle"
  /\ forest' = f
  /\ ghost' = t8_forest_ghost_init
  /\ pghost' = "VALID"
  /\ pos' = [Idle EXCEPT !.phase = "shared"]
  /\ GhostCall("ghost_create", <<"init">>, "ok")

\* the other variables of a step of ghost_create that stops
GhostStop(phase) ==
  /\ pos' = [pos EXCEPT !.phase = phase]
  /\ UNCHANGED <<forest, ghost, pghost>>

\* lines 294-307 of fill_ghost_tree_array: the first and the last local
\* tree are added if they are shared; first and lastt are what becomes of
\* the two calls of add_tree
fill_ghost_tree_array_shared(first, lastt) ==
  LET first_id == forest.first_local_tree_id
      last_id == first_id + t8_forest_get_num_local_trees(forest) - 1
      gtreeids == (IF forest.first_tree_shared THEN <<first_id>> ELSE <<>>)
                    \o (IF forest.last_tree_shared THEN <<last_id>> ELSE <<>>)
      outcomes == (IF forest.first_tree_shared THEN <<first>> ELSE <<>>)
                    \o (IF forest.last_tree_shared THEN <<lastt>> ELSE <<>>)
  IN /\ pghost = "VALID"
     /\ pos.phase = "shared"
     /\ IF \E i \in 1..Len(outcomes) : outcomes[i] = "fail"
          THEN /\ GhostStop("failed")
               /\ GhostCall("ghost_create", <<"shared">>, "fail")
          ELSE /\ ghost' = ghost_add_trees(ghost, gtreeids, outcomes)
               /\ pos' = AfterCoarse(forest, <<-1, 0>>)
               /\ GhostCall("ghost_create", <<"shared", gtreeids>>, "ok")
               /\ UNCHANGED <<forest, pghost>>

\* one iteration of the loop of lines 318-328, for the face iface of the
\* coarse tree of the local tree itree; outcome is what becomes of the
\* call of add_tree
fill_ghost_tree_array_face(outcome) ==
  LET ctree_treeid == t8_forest_get_coarse_tree_id(forest, pos.itree)
      face_neighbors == t8_forest_get_coarse_tree_ext(forest, pos.itree)
      lneighid == t8_forest_cmesh_ltreeid_to_ltreeid(forest, face_neighbors[pos.iface + 1])
      arg == <<"face", pos.itree, pos.iface>>
  IN /\ pghost = "VALID"
     /\ pos.phase = "coarse"
     /\ IF lneighid = -1 /\ outcome = "fail"
          THEN /\ GhostStop("failed")
               /\ GhostCall("ghost_create", arg, "fail")
          ELSE /\ ghost' = IF lneighid = -1
                             THEN t8_forest_ghost_add_tree(
                                    ghost, ctree_treeid + forest.first_ctreeid, outcome)
                             ELSE ghost
               /\ pos' = AfterCoarse(forest, <<pos.itree, pos.iface>>)
               /\ GhostCall("ghost_create", arg, "ok")
               /\ UNCHANGED <<forest, pghost>>

\* lines 330-351 of fill_ghost_tree_array: sort and index again
fill_ghost_tree_array_sort ==
  /\ pghost = "VALID"
  /\ pos.phase = "sort"
  /\ ghost' = ghost_reset_index([ghost EXCEPT !.ghost_trees = sc_array_sort(@)])
  /\ pos' = AfterScan(forest, <<-1, 0, 0>>, pos)
  /\ GhostCall("ghost_create", <<"sort">>, "ok")
  /\ UNCHANGED <<forest, pghost>>

\* a call scheme->t8_element_destroy (count, half_neighbors); elements is
\* the class of the scheme whose t8_element_new made the elements
element_destroy(scheme, count, elements) ==
  [scheme |-> scheme, count |-> count, elements |-> elements]

\* lines 525-529: growing the buffer destroys its old elements, if it has
\* any, through the scheme of the neighbor of the face at hand
half_neighbors_regrow(p, neigh_class, num_face_children) ==
  IF p.max_num_face_children < num_face_children /\ p.max_num_face_children > 0
    THEN <<element_destroy(neigh_class, p.max_num_face_children, p.half_neighbors)>>
    ELSE <<>>

\* line 560: the elements of the buffer are destroyed through the scheme
\* of the neighbor of the last face
half_neighbors_cleanup(p) ==
  <<element_destroy(p.neigh_scheme, p.max_num_face_children, p.half_neighbors)>>

\* lines 510-541 of an iteration of the face loop: the face iface of the
\* element ielem of the local tree itree.  The neighbor has the class
\* neigh_class and the face num_face_children children; neighbor_tree is
\* the tree of the half face neighbors.  realloc is what becomes of
\* SC_REALLOC on a pointer that was never written (line 523)
ghost_create_face(neigh_class, num_face_children, neighbor_tree, realloc) ==
  LET elem == t8_forest_get_tree_element(forest, pos.itree, pos.ielem)
      regrow == pos.max_num_face_children < num_face_children
      locals == IF regrow
                  THEN [pos EXCEPT !.neigh_scheme = neigh_class,
                                   !.half_neighbors = neigh_class,
                                   !.num_face_children = num_face_children,
                                   !.max_num_face_children = num_face_children]
                  ELSE [pos EXCEPT !.neigh_scheme = neigh_class,
                                   !.num_face_children = num_face_children]
      arg == <<"scan", pos.itree, elem, pos.iface, neighbor_tree>>
  IN /\ pghost = "VALID"
     /\ pos.phase = "scan"
     /\ IF regrow /\ pos.half_neighbors = "uninit" /\ realloc = "crash"
          THEN /\ GhostStop("crashed")
               /\ GhostCall("ghost_create", arg, "crash")
          ELSE /\ pos' = IF neighbor_tree >= 0 /\ 0 < num_face_children
                            THEN [locals EXCEPT !.phase = "owner", !.ichild = 0]
                            ELSE AfterScan(forest, <<pos.itree, pos.ielem, pos.iface>>, locals)
               /\ GhostRelease("ghost_create", arg, "ok",
                               half_neighbors_regrow(pos, neigh_class, num_face_children))
               /\ UNCHANGED <<forest, ghost, pghost>>

\* one iteration of the loop of lines 542-553: owner is the process that
\* t8_forest_element_find_owner returns for the half face neighbor ichild
ghost_create_owner(owner) ==
  LET elem == t8_forest_get_tree_element(forest, pos.itree, pos.ielem)
      locals == [pos EXCEPT !.ichild = @ + 1]
      arg == <<"owner", pos.itree, elem, pos.iface, pos.ichild, owner>>
  IN /\ pghost = "VALID"
     /\ pos.phase = "owner"
     /\ IF ~(0 <= owner /\ owner < forest.mpisize)
          THEN /\ GhostStop("failed")
               /\ GhostCall("ghost_create", arg, "fail")
          ELSE /\ ghost' = ghost_add_owner(ghost, forest, owner, pos.itree, elem)
               /\ pos' = IF locals.ichild < pos.num_face_children
                            THEN locals
                            ELSE AfterScan(forest, <<pos.itree, pos.ielem, pos.iface>>, locals)
               /\ GhostCall("ghost_create", arg, "ok")
               /\ UNCHANGED <<forest, pghost>>

\* lines 559-561: the scheme and the buffer are those of the last face; if
\* no face was scanned, or none with children, t8_element_destroy is called
\* through a pointer, and SC_FREE on a pointer, that were never written, and
\* cleanup is what becomes of that
ghost_create_cleanup(cleanup) ==
  /\ pghost = "VALID"
  /\ pos.phase = "cleanup"
  /\ IF (pos.neigh_scheme = "uninit" \/ pos.half_neighbors = "uninit") /\ cleanup = "crash"
       THEN /\ GhostStop("crashed")
            /\ GhostCall("ghost_create", <<"cleanup">>, "crash")
       ELSE /\ pos' = [pos EXCEPT !.phase = "done", !.half_neighbors = "freed"]
            /\ GhostRelease("ghost_create", <<"done">>, "ok", half_neighbors_cleanup(pos))
            /\ UNCHANGED <<forest, ghost, pghost>>

\* ---- reference counting and teardown of the ghost ----

t8_forest_ghost_ref ==
  /\ pghost = "VALID"
  /\ pos.phase = "done"
  /\ ghost.rc < MaxRef
  /\ ghost' = [ghost EXCEPT !.rc = @ + 1]
  /\ GhostCall("ghost_ref", <<>>, "ok")
  /\ UNCHANGED <<forest, pghost, pos>>

\* the buffers that a ghost holds: the structure, the arrays, hash tables
\* and memory pools that t8_forest_ghost_init makes (lines 173-200), the
\* array of remote trees of every bundle (line 407) and the array of
\* elements of every remote tree that an element was pushed to (line 458).
\* An array of elements that is initialized and never pushed to has no
\* buffer: that is so for all the ghost trees (line 265)
GhostBuffers(g) ==
  {<<"ghost">>, <<"ghost_trees">>, <<"glo_tree_mempool">>, <<"global_tree_to_ghost_tree">>,
   <<"proc_offset_mempool">>, <<"process_offsets">>, <<"processes">>, <<"remote_ghosts">>,
   <<"remote_processes">>}
    \cup {<<"remote_trees", g.remote_ghosts[it].remote_rank>> : it \in 1..Len(g.remote_ghosts)}
    \cup UNION {{<<"elements", g.remote_ghosts[it].remote_rank, t>> :
                   t \in {u \in 1..Len(g.remote_ghosts[it].remote_trees) :
                            g.remote_ghosts[it].remote_trees[u].elements # <<>>}} :
                it \in 1..Len(g.remote_ghosts)}

\* lines 576-598 of t8_forest_ghost_reset: what is released, in this order
ghost_reset_released(g) ==
  <<<<"ghost_trees">>, <<"processes">>, <<"remote_processes">>,
    <<"global_tree_to_ghost_tree">>, <<"process_offsets">>>>
    \o [it \in 1..Len(g.remote_ghosts) |-> <<"remote_trees", g.remote_ghosts[it].remote_rank>>]
    \o <<<<"remote_ghosts">>, <<"glo_tree_mempool">>, <<"proc_offset_mempool">>, <<"ghost">>>>

\* t8_forest_ghost_unref that resets the ghost while a reference is left
ghost_unref_early ==
  /\ pghost = "VALID"
  /\ pos.phase = "done"
  /\ ghost' = [ghost EXCEPT !.rc = @ - 1]
  /\ pghost' = IF ghost.rc <= 2 THEN "DANGLING" ELSE "VALID"
  /\ GhostCall("ghost_unref", <<>>, "ok")
  /\ UNCHANGED <<forest, pos>>

\* t8_forest_ghost_unref, with t8_forest_ghost_reset when the count reaches
\* zero: the ghost is freed and forest->ghosts keeps pointing to it, since
\* line 599 clears the parameter of reset only
t8_forest_ghost_unref ==
  /\ pghost = "VALID"
  /\ pos.phase = "done"
  /\ ghost' = [ghost EXCEPT !.rc = @ - 1]
  /\ pghost' = IF ghost.rc = 1 THEN "DANGLING" ELSE "VALID"
  /\ GhostRelease("ghost_unref", <<>>, "ok",
                  IF ghost.rc = 1 THEN ghost_reset_released(ghost) ELSE <<>>)
  /\ UNCHANGED <<forest, pos>>

\* t8_forest_ghost_destroy: the assertion of line 626, the unref, and the
\* assertion of line 630 on the handle, which reset has not cleared
t8_forest_ghost_destroy ==
  /\ pghost = "VALID"
  /\ pos.phase = "done"
  /\ IF ghost.rc # 1
       THEN /\ GhostCall("ghost_destroy", <<ghost.rc>>, "fail")
            /\ UNCHANGED <<forest, ghost, pghost, pos>>
       ELSE /\ ghost' = [ghost EXCEPT !.rc = @ - 1]
            /\ pghost' = "DANGLING"
            /\ GhostRelease("ghost_destroy", <<ghost.rc>>,
                            IF pghost' = "NULL" THEN "ok" ELSE "fail",
                            ghost_reset_released(ghost))
            /\ UNCHANGED <<forest, pos>>

----------------------------------------------------------------------------

Next ==
  \/ \E comm \in CommInputs, do_dup \in {0, 1} : t8_cmesh_set_mpicomm(comm, do_dup)
  \/ \E n \in 0..MaxTrees : t8_cmesh_set_num_trees(n)
  \/ \E p \in {0, 1}, n \in 0..MaxTrees, fg \in {<<0, 0>>, <<1, 1>>} :
       t8_cmesh_set_partitioned(p, n, fg[1], fg[2])
  \/ \E id \in -1..(MaxTrees + 1), e \in EClassInputs :
       /\ set_tree_asserts(id, e) => NumSetTree < MaxSetTree
       /\ t8_cmesh_set_tree(id, e)
  \/ \E tree1, tree2 \in {0, 1} : t8_cmesh_join_faces(tree1, tree2, 0, 0, 0)
  \/ \E sr \in SizeRank(MaxSize) : t8_cmesh_commit(sr)
  \/ t8_cmesh_get_mpicomm
  \/ t8_cmesh_get_num_trees
  \/ t8_cmesh_get_local_num_trees
  \/ \E id \in -1..(MaxTrees + 1) : t8_cmesh_get_tree_class(id)
  \/ \E level \in {0, 1} : t8_cmesh_uniform_bounds(level)
  \/ \E free \in {"ok", "crash"} : t8_cmesh_unref(free)
  \/ \E e \in EClassInputs, comm \in {sc_MPI_COMM_WORLD, sc_MPI_COMM_SELF},
        do_dup \in {0, 1}, sr \in SizeRank(MaxSize) :
       t8_cmesh_new_hypercube(e, comm, do_dup, sr)

Spec == Init /\ [][Next]_vars

\* The calls that build replicated meshes and ask for their uniform bounds,
\* with more trees, more processes and deeper levels than Spec.
NextUniform ==
  \/ \E n \in 0..MaxUniformTrees : t8_cmesh_set_num_trees(n)
  \/ \E id \in 0..MaxUniformTrees, e \in EClassInputs :
       /\ set_tree_asserts(id, e) => NumSetTree < MaxUniformTrees
       /\ t8_cmesh_set_tree(id, e)
  \/ \E sr \in SizeRank(MaxUniformSize) : t8_cmesh_commit(sr)
  \/ \E level \in 0..MaxLevel : t8_cmesh_uniform_bounds(level)
  \/ \E e \in EClass, sr \in SizeRank(MaxUniformSize) :
       t8_cmesh_new_hypercube(e, sc_MPI_COMM_WORLD, 0, sr)

SpecUniform == Init /\ [][NextUniform]_vars

----------------------------------------------------------------------------
(* Forests and answers for the ghost specifications *)

\* the leaves at the end of a tree in storage order: elements of level 2
\* with the linear ids 2 and 3, then the element of level 1 with id 1
TreeOrder ==
  <<[level |-> 2, id |-> 2], [level |-> 2, id |-> 3], [level |-> 1, id |-> 1]>>

\* the last n leaves of a tree
Leaves(n) == SubSeq(TreeOrder, Len(TreeOrder) - n + 1, Len(TreeOrder))

ElementLists == {Leaves(n) : n \in 0..MaxElements}

\* the face neighbors that the coarse tree with the cmesh local id c can
\* have: a line has the tree before it or itself (the boundary) at face 0
\* and the tree after it or itself at face 1; the other classes are taken
\* with their own tree at every face
NeighborChoices(eclass, c) ==
  IF eclass = "LINE"
    THEN {<<a, b>> : a \in {c, IF c > 0 THEN c - 1 ELSE c}, b \in {c, c + 1}}
    ELSE {[i \in 1..t8_eclass_num_faces[eclass] |-> c]}

\* the forests with up to MaxLocalTrees local trees whose elements are in lists
ForestsOver(lists, eclass, mpirank) ==
  UNION {
    {[mpirank |-> mpirank, mpisize |-> MaxRanks,
      first_local_tree_id |-> p[2], first_local_tree_id_high |-> 0,
      first_tree_shared |-> fs, last_tree_shared |-> ls,
      first_ctreeid |-> p[3], eclass |-> eclass, trees |-> trees, face_neighbors |-> fn] :
       fs \in BOOLEAN, ls \in BOOLEAN,
       trees \in [1..p[1] -> lists],
       fn \in {x \in [1..p[1] -> UNION {NeighborChoices(eclass, c) : c \in 0..(p[1] + p[2])}] :
                \A i \in 1..p[1] : x[i] \in NeighborChoices(eclass, i - 1 + p[2] - p[3])}} :
    p \in {q \in (0..MaxLocalTrees) \X (0..MaxFirstTree) \X (0..MaxFirstTree) : q[3] <= q[2]}}

\* forests of lines without elements, on any part of the coarse mesh
TreeForests ==
  {f \in ForestsOver({<<>>}, "LINE", 0) :
     f.trees = <<>> => ~f.first_tree_shared /\ ~f.last_tree_shared}

\* forests of triangles with up to MaxElements elements whose first tree is
\* MaxFirstTree, that share no tree
ElementForests ==
  {f \in ForestsOver(ElementLists, "TRIANGLE", 1) :
     /\ Cardinality({p \in ScanPositions(f) : p[3] = 0}) <= MaxElements
     /\ \A itree \in 1..Len(f.trees) : f.trees[itree] # <<>>
     /\ f.first_local_tree_id = MaxFirstTree /\ f.first_ctreeid = 0
     /\ ~f.first_tree_shared /\ ~f.last_tree_shared}

\* the same forests further up in the coarse mesh: the first tree is
\* 2^31 + MaxFirstTree
WideForests == {[f EXCEPT !.first_local_tree_id_high = 1] : f \in ElementForests}

\* the forest without trees
EmptyForests == {f \in TreeForests : f.trees = <<>> /\ f.first_local_tree_id = 0}

Ranks == 0..(MaxRanks - 1)

\* a global tree id, and -1 for the boundary of the domain
NeighborTrees == {-1, 0}

\* what SC_REALLOC can do in line 523: crash only if the buffer pointer was
\* never written
ReallocOutcomes == IF pos.half_neighbors = "uninit" THEN {"ok", "crash"} ELSE {"ok"}

\* Phase A of the ghost construction, on forests without elements
NextGhostTrees ==
  \/ \E f \in TreeForests : ghost_create_init(f)
  \/ \E first, lastt \in AddTreeOutcomes(forest) : fill_ghost_tree_array_shared(first, lastt)
  \/ \E outcome \in AddTreeOutcomes(forest) : fill_ghost_tree_array_face(outcome)
  \/ fill_ghost_tree_array_sort
  \/ \E cleanup \in {"ok", "crash"} : ghost_create_cleanup(cleanup)

SpecGhostTrees == Init /\ [][NextGhostTrees]_vars

\* Phase B of the ghost construction, on forests whose coarse face
\* neighbors are all local
NextRemote ==
  \/ \E f \in ElementForests : ghost_create_init(f)
  \/ fill_ghost_tree_array_shared(forest.eclass, forest.eclass)
  \/ fill_ghost_tree_array_face(forest.eclass)
  \/ fill_ghost_tree_array_sort
  \/ \E num_face_children \in 0..MaxFaceChildren, neighbor_tree \in NeighborTrees,
          realloc \in ReallocOutcomes :
       ghost_create_face(forest.eclass, num_face_children, neighbor_tree, realloc)
  \/ \E owner \in Ranks : ghost_create_owner(owner)
  \/ \E cleanup \in {"ok", "crash"} : ghost_create_cleanup(cleanup)

SpecRemote == Init /\ [][NextRemote]_vars

\* Phase B of the ghost construction with global tree ids on both sides of
\* 2^31
NextRemoteWide ==
  \/ \E f \in ElementForests \cup WideForests : ghost_create_init(f)
  \/ fill_ghost_tree_array_shared(forest.eclass, forest.eclass)
  \/ fill_ghost_tree_array_face(forest.eclass)
  \/ fill_ghost_tree_array_sort
  \/ \E num_face_children \in 0..MaxFaceChildren, neighbor_tree \in NeighborTrees,
          realloc \in ReallocOutcomes :
       ghost_create_face(forest.eclass, num_face_children, neighbor_tree, realloc)
  \/ \E owner \in Ranks : ghost_create_owner(owner)
  \/ \E cleanup \in {"ok", "crash"} : ghost_create_cleanup(cleanup)

SpecRemoteWide == Init /\ [][NextRemoteWide]_vars

\* the classes that the neighbor of a face of a triangle can have in a
\* coarse mesh of triangles and quadrilaterals
NeighborClasses == {"TRIANGLE", "QUAD"}

\* Phase B of the ghost construction in a coarse mesh with two classes
NextHybrid ==
  \/ \E f \in ElementForests : ghost_create_init(f)
  \/ fill_ghost_tree_array_shared(forest.eclass, forest.eclass)
  \/ fill_ghost_tree_array_face(forest.eclass)
  \/ fill_ghost_tree_array_sort
  \/ \E neigh_class \in NeighborClasses, num_face_children \in 0..MaxFaceChildren,
          neighbor_tree \in NeighborTrees, realloc \in ReallocOutcomes :
       ghost_create_face(neigh_class, num_face_children, neighbor_tree, realloc)
  \/ \E owner \in Ranks : ghost_create_owner(owner)
  \/ \E cleanup \in {"ok", "crash"} : ghost_create_cleanup(cleanup)

SpecHybrid == Init /\ [][NextHybrid]_vars

\* References to a cmesh and to the ghost of a forest without trees
NextRef ==
  \/ \E comm \in CommInputs, do_dup \in {0, 1} : t8_cmesh_set_mpicomm(comm, do_dup)
  \/ \E n \in 0..MaxTrees : t8_cmesh_set_num_trees(n)
  \/ \E sr \in SizeRank(MaxSize) : t8_cmesh_commit(sr)
  \/ t8_cmesh_ref
  \/ \E free \in {"ok", "crash"} : t8_cmesh_unref(free)
  \/ \E f \in EmptyForests : ghost_create_init(f)
  \/ fill_ghost_tree_array_shared(forest.eclass, forest.eclass)
  \/ fill_ghost_tree_array_sort
  \/ \E cleanup \in {"ok", "crash"} : ghost_create_cleanup(cleanup)
  \/ t8_forest_ghost_ref
  \/ t8_forest_ghost_unref

SpecRef == Init /\ [][NextRef]_vars

\* The ghost of a forest with elements, from its construction to its end
NextGhostLife ==
  \/ \E f \in ElementForests : ghost_create_init(f)
  \/ fill_ghost_tree_array_shared(forest.eclass, forest.eclass)
  \/ fill_ghost_tree_array_face(forest.eclass)
  \/ fill_ghost_tree_array_sort
  \/ \E num_face_children \in 0..MaxFaceChildren, neighbor_tree \in NeighborTrees,
          realloc \in ReallocOutcomes :
       ghost_create_face(forest.eclass, num_face_children, neighbor_tree, realloc)
  \/ \E owner \in Ranks : ghost_create_owner(owner)
  \/ \E cleanup \in {"ok", "crash"} : ghost_create_cleanup(cleanup)
  \/ t8_forest_ghost_ref
  \/ t8_forest_ghost_unref
  \/ t8_forest_ghost_destroy

SpecGhostLife == Init /\ [][NextGhostLife]_vars

----------------------------------------------------------------------------
(* Properties *)

Configuring == cmesh.committed = 0
Committed == cmesh.committed = 1

\* the tree array, empty when there is none
LocalTrees == IF cmesh.ctrees = <<>> THEN <<>> ELSE cmesh.ctrees[1]

\* the local range of tree ids as the specification states it
InLocalRange(tree_id) ==
  IF cmesh.set_partitioned # 0
    THEN cmesh.first_tree <= tree_id
         /\ tree_id < cmesh.first_tree + cmesh.num_local_trees
    ELSE 0 <= tree_id /\ tree_id < cmesh.num_trees

\* C1: on a Configuring cmesh set_tree accepts a tree id if and only if it
\* lies in the local range [first_tree, first_tree + num_local_trees)
\* (partitioned) or [0, num_trees) (replicated).  A call on a cmesh without
\* dimension cannot fail for its element class, so its failure is a
\* rejection of the id.
C1_SetTreeAcceptsLocalRange ==
  (last.op = "set_tree" /\ Configuring) =>
    /\ last.outcome = "ok" => InLocalRange(last.arg[1])
    /\ (last.outcome = "fail" /\ cmesh.dimension = -1) => ~InLocalRange(last.arg[1])

----------------------------------------------------------------------------

Pow2(n) == 2^n

\* the child interval of rank r as the specification states it
SpecFirstChild(G, r, size) == IF r > 0 THEN (G * r) \div size ELSE 0
SpecLastChild(G, r, size) == IF r < size - 1 THEN (G * (r + 1)) \div size ELSE G

\* C2: on a committed cmesh without pyramids, for every level, the child
\* intervals [first_child_r, last_child_r) of the ranks 0..size-1 partition
\* [0, num_trees * 2^(dimension*level)): the first starts at 0, the last ends
\* at G, none is reversed and each ends where the next starts.
C2_UniformBoundsPartition ==
  (Committed /\ cmesh.num_trees_per_eclass["PYRAMID"] = 0) =>
    \A level \in 0..MaxLevel :
      cmesh.dimension * level >= 0 =>
        LET size == cmesh.mpisize
            G == cmesh.num_trees * Pow2(cmesh.dimension * level)
            first_child(r) == first_global_child(G, r, size)
            last_child(r) == last_global_child(G, r, size)
        IN /\ size >= 1
           /\ first_child(0) = 0
           /\ last_child(size - 1) = G
           /\ \A r \in 0..(size - 1) : first_child(r) <= last_child(r)
           /\ \A r \in 0..(size - 2) : last_child(r) = first_child(r + 1)

\* uniform_bounds returned on a committed cmesh, at a rank in the middle of a
\* child range that the number of ranks does not divide
C2_Witness ==
  /\ Committed
  /\ last.op = "uniform_bounds" /\ last.outcome = "ok"
  /\ cmesh.mpisize >= 3
  /\ cmesh.mpirank \in 1..(cmesh.mpisize - 2)
  /\ (cmesh.num_trees * last.locals.children_per_tree) % cmesh.mpisize # 0
  /\ last.locals.first_global_child < last.locals.last_global_child

\* C3: on a committed cmesh without pyramids uniform_bounds returns
\* (first_child / C, first_child - first_local_tree * C,
\*  (last_child - 1) / C if first_child < last_child else first_local_tree,
\*  last_child - last_local_tree * C if last_local_tree > 0 else last_child)
\* with C = 2^(dimension*level) and the child interval of its rank; 3
\* triangles at level 2 give rank 2 of 4 the result (1, 8, 2, 4), and 6
\* tetrahedra at level 1 give the only rank (0, 0, 5, 8).
C3_UniformBoundsValues ==
  (Committed /\ last.op = "uniform_bounds" /\ last.outcome = "ok") =>
    LET level == last.arg[1]
        C == last.locals.children_per_tree
        G == cmesh.num_trees * C
        first_child == SpecFirstChild(G, cmesh.mpirank, cmesh.mpisize)
        last_child == SpecLastChild(G, cmesh.mpirank, cmesh.mpisize)
        first_local_tree == first_child \div C
        last_local_tree == IF first_child < last_child
                             THEN (last_child - 1) \div C
                             ELSE first_local_tree
    IN /\ cmesh.num_trees_per_eclass["PYRAMID"] = 0
       /\ C > 0
       /\ cmesh.dimension * level >= 0 => C = Pow2(cmesh.dimension * level)
       /\ last.res = <<first_local_tree,
                       first_child - first_local_tree * C,
                       last_local_tree,
                       IF last_local_tree > 0
                         THEN last_child - last_local_tree * C
                         ELSE last_child>>
       /\ (cmesh.num_trees = 3 /\ cmesh.dimension = 2 /\ level = 2
             /\ cmesh.mpisize = 4 /\ cmesh.mpirank = 2)
            => last.res = <<1, 8, 2, 4>>
       /\ (cmesh.num_trees = 6 /\ cmesh.dimension = 3 /\ level = 1
             /\ cmesh.mpisize = 1)
            => last.res = <<0, 0, 5, 8>>

\* rank 2 of 4 asked for the bounds of 3 triangles at level 2
C3_Witness ==
  /\ Committed
  /\ last.op = "uniform_bounds" /\ last.outcome = "ok" /\ last.arg = <<2>>
  /\ cmesh.num_trees = 3 /\ cmesh.num_trees_per_eclass["TRIANGLE"] = 3
  /\ cmesh.mpisize = 4 /\ cmesh.mpirank = 2
  /\ last.res = <<1, 8, 2, 4>>

\* C4: on a committed cmesh the child interval of the rank is empty if and
\* only if uniform_bounds returns first_local_tree = last_local_tree and
\* child_in_tree_begin = child_in_tree_end.
C4_EmptyRankSignalled ==
  (Committed /\ last.op = "uniform_bounds" /\ last.outcome = "ok") =>
    LET G == cmesh.num_trees * last.locals.children_per_tree
        first_child == SpecFirstChild(G, cmesh.mpirank, cmesh.mpisize)
        last_child == SpecLastChild(G, cmesh.mpirank, cmesh.mpisize)
    IN (first_child = last_child)
         <=> (last.res[1] = last.res[3] /\ last.res[2] = last.res[4])

\* rank 2 of 4 asked for the bounds of 2 children: its interval is [1, 1)
C4_Witness ==
  /\ Committed
  /\ last.op = "uniform_bounds" /\ last.outcome = "ok"
  /\ cmesh.num_trees * last.locals.children_per_tree = 2
  /\ cmesh.mpisize = 4 /\ cmesh.mpirank = 2
  /\ last.locals.first_global_child = 1 /\ last.locals.last_global_child = 1
  /\ last.res[1] = last.res[3] /\ last.res[2] = last.res[4]

----------------------------------------------------------------------------

CommittedPhaseQueries ==
  {"get_num_trees", "get_local_num_trees", "get_tree_class", "get_mpicomm"}

\* C5: every committed-phase query fails on a cmesh that is not committed.
C5_QueriesNeedCommit ==
  (last.op \in CommittedPhaseQueries /\ Configuring) => last.outcome = "fail"

\* C6: uniform_bounds is rejected on a Configuring cmesh, whose rank and size
\* are the placeholders -1: it never returns a result computed from them.
C6_UniformBoundsNeedsCommit ==
  (last.op = "uniform_bounds" /\ Configuring) => last.outcome \in {"fail", "abort"}

----------------------------------------------------------------------------

Setters == {"set_mpicomm", "set_partitioned", "set_num_trees", "set_tree"}

\* the fields that the setters write
Configuration(c) ==
  <<c.mpicomm, c.do_dup, c.set_partitioned, c.num_trees, c.num_local_trees,
    c.num_ghosts, c.first_tree, c.dimension, c.num_trees_per_eclass, c.ctrees>>

\* C7: on a committed cmesh every setter call fails, and no call changes the
\* communicator, do_dup, the partitioned flag, the tree counts, first_tree,
\* the dimension, the per-eclass counts or the tree array.
C7_CommittedImmutable ==
  [][Committed =>
       /\ last'.op \in Setters => last'.outcome = "fail"
       /\ Configuration(cmesh') = Configuration(cmesh)]_vars

\* set_tree was called on a committed cmesh with an id of its local range
C7_Witness ==
  /\ Committed
  /\ last.op = "set_tree" /\ last.outcome = "fail"
  /\ t8_cmesh_tree_id_is_valid(cmesh, last.arg[1])

\* C8: in a committed cmesh every tree of the tree array has been populated
\* by set_tree: its eclass is an element class.
C8_CommittedTreesPopulated ==
  Committed => \A i \in 1..Len(LocalTrees) : LocalTrees[i].eclass \in EClass

\* C9: after commit num_local_trees <= num_trees.
C9_LocalTreesAtMostGlobal ==
  Committed => cmesh.num_local_trees <= cmesh.num_trees

----------------------------------------------------------------------------

\* the calls that run t8_cmesh_commit
CommitCalls == {"commit", "new_hypercube"}

\* C10: the cmesh becomes committed only by a successful commit, on a cmesh
\* with a communicator and num_trees > 0; commit fails when the communicator
\* is null, when num_trees = 0 and when the cmesh is committed already; a
\* successful commit changes rank and size from -1 to a rank and size of the
\* final communicator; a committed cmesh stays committed.
C10_CommitOnce ==
  [][/\ (Configuring /\ cmesh'.committed # 0) =>
          /\ last'.op \in CommitCalls /\ last'.outcome = "ok"
          /\ cmesh'.committed = 1
          /\ cmesh'.mpicomm # sc_MPI_COMM_NULL /\ cmesh'.num_trees > 0
          /\ cmesh.mpirank = -1 /\ cmesh.mpisize = -1
          /\ CommSizeRank(cmesh'.mpicomm, <<cmesh'.mpisize, cmesh'.mpirank>>)
     /\ (last'.op = "commit" /\ last'.outcome = "ok") =>
          /\ Configuring /\ cmesh'.committed = 1
          /\ cmesh'.mpicomm = FinalComm(cmesh)
     /\ (last'.op = "commit"
           /\ (Committed \/ cmesh.num_trees = 0 \/ cmesh.mpicomm = sc_MPI_COMM_NULL)) =>
          last'.outcome = "fail" /\ cmesh' = cmesh
     /\ Committed => cmesh'.committed = 1
     /\ Configuring' => cmesh'.mpirank = -1 /\ cmesh'.mpisize = -1]_vars

\* commit was called a second time
C10_Witness ==
  /\ Committed
  /\ cmesh.mpisize >= 1 /\ cmesh.mpirank \in 0..(cmesh.mpisize - 1)
  /\ last.op = "commit" /\ last.outcome = "fail"

----------------------------------------------------------------------------

\* the trees of the tree array that set_tree has written
InsertedTrees ==
  {LocalTrees[i] : i \in {j \in 1..Len(LocalTrees) : LocalTrees[j].eclass \in EClass}}

\* the dimension is that of every tree in the tree array, and it is -1
\* exactly as long as no tree was inserted
DimensionOfTrees ==
  /\ \A tree \in InsertedTrees : t8_eclass_to_dimension[tree.eclass] = cmesh.dimension
  /\ cmesh.dimension = -1 <=> NumSetTree = 0
  /\ cmesh.dimension \in {-1, 0, 1, 2, 3}

\* the tree that a set_tree call with the tree id tree_id wrote into c
TreeWritten(c, tree_id) == c.ctrees[1][t8_cmesh_tree_index(c, tree_id) + 1]

\* C11: in every reachable state the dimension of the cmesh is the dimension
\* of the element class of every tree inserted so far.  The first successful
\* set_tree takes the dimension from -1 to that of its class; once it is set
\* no call changes it, and every set_tree that succeeds inserted a tree of
\* that dimension, so one of another dimension failed.
C11_DimensionFixedByFirstTree ==
  /\ []DimensionOfTrees
  /\ [][/\ (last'.op = "set_tree" /\ last'.outcome = "ok") =>
            LET tree == TreeWritten(cmesh', last'.arg[1])
            IN /\ cmesh'.dimension = t8_eclass_to_dimension[tree.eclass]
               /\ cmesh.dimension \in {-1, cmesh'.dimension}
               /\ NumSetTree' = NumSetTree + 1
        /\ cmesh.dimension # -1 => cmesh'.dimension = cmesh.dimension
        /\ (last'.op = "set_tree" /\ last'.outcome = "fail") => cmesh' = cmesh]_vars

\* a Configuring cmesh of dimension 2 with a tree inserted refused a set_tree
\* whose tree id is valid: the class had another dimension
C11_Witness ==
  /\ Configuring
  /\ cmesh.dimension = 2 /\ cmesh.num_trees_per_eclass["TRIANGLE"] = 1
  /\ last.op = "set_tree" /\ last.outcome = "fail"
  /\ t8_cmesh_tree_id_is_valid(cmesh, last.arg[1])

----------------------------------------------------------------------------

\* what a successful set_partitioned leaves behind: the flag (partitioned) or
\* a global tree count (replicated)
PartitionDecided == cmesh.set_partitioned # 0 \/ cmesh.num_trees > 0

\* the fields that set_partitioned decides
Partition(c) == <<c.set_partitioned, c.num_trees, c.first_tree>>

\* C12: set_partitioned fails on a cmesh on which it succeeded before,
\* whether that call was replicated or partitioned, and on a cmesh with a
\* tree inserted.  A successful call starts from the initial flag, count and
\* first_tree and leaves the partition decided; from then on the partition
\* stays decided, every set_partitioned fails, and no call changes the flag,
\* the global tree count or first_tree.
C12_SetPartitionedOnce ==
  [][/\ (last'.op = "set_partitioned" /\ last'.outcome = "ok") =>
          /\ Partition(cmesh) = <<0, 0, 0>> /\ NumSetTree = 0
          /\ cmesh'.set_partitioned = last'.arg[1]
          /\ PartitionDecided'
     /\ (last'.op = "set_partitioned" /\ (PartitionDecided \/ NumSetTree > 0)) =>
          last'.outcome = "fail" /\ cmesh' = cmesh
     /\ (last.op = "set_partitioned" /\ last.outcome = "ok"
           /\ last'.op = "set_partitioned") => last'.outcome = "fail"
     /\ PartitionDecided => PartitionDecided' /\ Partition(cmesh') = Partition(cmesh)
     /\ NumSetTree > 0 => PartitionDecided]_vars

\* set_partitioned was called again on a Configuring cmesh that an earlier
\* call made partitioned with a global tree count of 0
C12_Witness ==
  /\ Configuring
  /\ cmesh.set_partitioned = 1 /\ cmesh.num_trees = 0 /\ cmesh.first_tree = 0
  /\ last.op = "set_partitioned" /\ last.outcome = "fail"

----------------------------------------------------------------------------

\* C13: in every state of a cmesh that is not partitioned the local tree
\* count is the global one, first_tree is 0 and num_ghosts is 0; a replicated
\* set_partitioned(0, n, first_local_tree, num_ghosts) stores n only.
C13_ReplicatedCounts ==
  cmesh.set_partitioned = 0 =>
    /\ cmesh.num_local_trees = cmesh.num_trees
    /\ cmesh.first_tree = 0
    /\ cmesh.num_ghosts = 0
    /\ (last.op = "set_partitioned" /\ last.outcome = "ok") =>
          cmesh.num_trees = last.arg[2]

\* set_partitioned(0, 2, 1, 1) returned
C13_Witness ==
  /\ last.op = "set_partitioned" /\ last.outcome = "ok"
  /\ last.arg = <<0, 2, 1, 1>>
  /\ cmesh.set_partitioned = 0 /\ cmesh.num_trees = 2

----------------------------------------------------------------------------

\* some tree of the tree array is a pyramid
HasPyramid == \E tree \in InsertedTrees : tree.eclass = "PYRAMID"

\* C14: whenever a tree of the cmesh has eclass Pyramid, uniform_bounds
\* aborts and returns no range; the count that line 326 tests is not zero
\* in every such state.
C14_PyramidRejected ==
  HasPyramid =>
    /\ cmesh.num_trees_per_eclass["PYRAMID"] # 0
    /\ last.op = "uniform_bounds" => last.outcome = "abort" /\ last.res = <<>>

\* uniform_bounds was called on a committed cmesh with a pyramid
C14_Witness ==
  /\ Committed /\ HasPyramid
  /\ last.op = "uniform_bounds" /\ last.outcome = "abort"

----------------------------------------------------------------------------

\* the cmesh was torn down: t8_cmesh_reset freed it and cleared the handle
CmeshTornDown == pcmesh = "NULL"

\* the ghost was torn down: t8_forest_ghost_reset freed it
GhostTornDown == pghost = "DANGLING"

\* an object is live exactly while its count is positive
LiveWhilePositive ==
  /\ cmesh.rc \in 0..MaxRef /\ ghost.rc \in 0..MaxRef
  /\ CmeshTornDown <=> cmesh.rc = 0
  /\ GhostTornDown <=> (pghost # "NULL" /\ ghost.rc = 0)
  /\ last = NoCall => cmesh.rc = 1
  /\ pghost = "NULL" => ghost = NoGhost

\* C15: a cmesh and a ghost start with the count 1; ref adds one and unref
\* takes one off; no other call changes the count; the teardown runs in the
\* unref that takes the count from 1 to 0 and in no other step, so never
\* while the count stays positive, and an object torn down stays so.
C15_TeardownAtZero ==
  /\ []LiveWhilePositive
  /\ [][/\ last'.op = "ref" => cmesh'.rc = cmesh.rc + 1
        /\ last'.op = "unref" => cmesh'.rc = cmesh.rc - 1
        /\ cmesh'.rc # cmesh.rc => last'.op \in {"ref", "unref"}
        /\ (~CmeshTornDown /\ CmeshTornDown') <=> (last'.op = "unref" /\ cmesh.rc = 1)
        /\ CmeshTornDown => CmeshTornDown'
        /\ (pghost = "NULL" /\ pghost' # "NULL") => ghost'.rc = 1 /\ ~GhostTornDown'
        /\ last'.op = "ghost_ref" => ghost'.rc = ghost.rc + 1
        /\ last'.op = "ghost_unref" => ghost'.rc = ghost.rc - 1
        /\ (pghost # "NULL" /\ ghost'.rc # ghost.rc) => last'.op \in {"ghost_ref", "ghost_unref"}
        /\ (~GhostTornDown /\ GhostTornDown') <=> (last'.op = "ghost_unref" /\ ghost.rc = 1)
        /\ GhostTornDown => GhostTornDown']_vars

\* after the cmesh was torn down, one of two references to the ghost was
\* dropped and the ghost is live
C15_Witness ==
  /\ CmeshTornDown /\ cmesh.rc = 0
  /\ pghost = "VALID" /\ ghost.rc = 1
  /\ last.op = "ghost_unref"

----------------------------------------------------------------------------

\* the communicators that commit creates
Duplicates == {sc_MPI_Comm_dup(comm) : comm \in CommInputs \ {sc_MPI_COMM_NULL}}

\* C16: the teardown of a cmesh hands a communicator to sc_MPI_Comm_free if
\* and only if do_dup is set and the cmesh is committed; that communicator
\* is the one of the cmesh, which is a duplicate that commit created, and
\* never one that the caller passed in.  The communicator of a cmesh is a
\* duplicate exactly if the cmesh is committed with do_dup.
C16_TeardownFreesDuplicate ==
  /\ cmesh.mpicomm \in Duplicates <=> (cmesh.do_dup # 0 /\ Committed)
  /\ cmesh.mpicomm \notin Duplicates => cmesh.mpicomm \in CommInputs
  /\ (last.op = "unref" /\ ~CmeshTornDown) => last.res = <<>>
  /\ (last.op = "unref" /\ CmeshTornDown) =>
        /\ last.res # <<>> <=> (cmesh.do_dup # 0 /\ Committed)
        /\ last.res # <<>> =>
              /\ last.res = <<cmesh.mpicomm>>
              /\ last.res[1] \in Duplicates
              /\ last.res[1] \notin CommInputs

\* a cmesh committed with a duplicate of the caller's sc_MPI_COMM_SELF was
\* torn down, and the duplicate was freed
C16_Witness ==
  /\ CmeshTornDown /\ last.op = "unref"
  /\ cmesh.do_dup # 0 /\ Committed
  /\ last.res = <<sc_MPI_Comm_dup(sc_MPI_COMM_SELF)>>

----------------------------------------------------------------------------

\* fill_ghost_tree_array has returned
PhaseADone == pghost = "VALID" /\ pos.phase \in {"scan", "owner", "cleanup", "done"}

\* the global ids of the ghost trees
GhostTreeIds == {ghost.ghost_trees[i].global_id : i \in 1..Len(ghost.ghost_trees)}

\* C17: once fill_ghost_tree_array has returned, the global ids of
\* ghost_trees ascend strictly, so none is there twice, and
\* global_tree_to_ghost_tree has exactly one entry for every ghost tree,
\* which holds the position of the tree in ghost_trees (counted from 0).
C17_GhostTreesSortedIndexed ==
  PhaseADone =>
    LET trees == ghost.ghost_trees
        table == ghost.global_tree_to_ghost_tree
    IN /\ \A i, j \in 1..Len(trees) : i < j => trees[i].global_id < trees[j].global_id
       /\ \A i \in 1..Len(trees) :
            {h.index : h \in {e \in table : e.global_id = trees[i].global_id}} = {i - 1}
       /\ \A h \in table : h.global_id \in GhostTreeIds
       /\ Cardinality(table) = Len(trees)

\* the ghost of a forest with two local trees of which only the last is
\* shared has both as ghost trees: the last was added first, the first by
\* a face of its coarse tree
C17_Witness ==
  /\ pos.phase = "done"
  /\ Len(forest.trees) = 2
  /\ forest.last_tree_shared /\ ~forest.first_tree_shared
  /\ GhostTreeIds = {forest.first_local_tree_id, forest.first_local_tree_id + 1}
  /\ last.op = "ghost_create" /\ last.outcome = "ok"

----------------------------------------------------------------------------

\* the global ids of the trees at the faces of the coarse trees of the local
\* trees that are not local trees of the forest
NonLocalNeighbors(f) ==
  {t8_forest_get_coarse_tree_ext(f, p[1])[p[2] + 1] + f.first_ctreeid :
     p \in {q \in CoarsePositions(f) :
              t8_forest_cmesh_ltreeid_to_ltreeid(
                f, t8_forest_get_coarse_tree_ext(f, q[1])[q[2] + 1]) = -1}}

\* C18: once fill_ghost_tree_array has returned, the global id of every
\* tree at a face of the coarse tree of a local tree that is not a local
\* tree of the forest is in ghost_trees.
C18_NonLocalNeighborsAdded ==
  PhaseADone => NonLocalNeighbors(forest) \subseteq GhostTreeIds

----------------------------------------------------------------------------

\* the elements of the remote store: <<rank, global tree id, element>>
Stored(g) ==
  UNION {UNION {{<<g.remote_ghosts[i].remote_rank,
                   locidx_to_gloidx(g.remote_ghosts[i].remote_trees[t].global_id),
                   g.remote_ghosts[i].remote_trees[t].elements[e]>> :
                   e \in 1..Len(g.remote_ghosts[i].remote_trees[t].elements)} :
                t \in 1..Len(g.remote_ghosts[i].remote_trees)} :
         i \in 1..Len(g.remote_ghosts)}

\* the latest step took the owner of a half face neighbor
FoundOwner(l) == l.op = "ghost_create" /\ l.arg[1] = "owner" /\ l.outcome = "ok"

\* what the step has to store: the element, for the owner of the half face
\* neighbor if that is a remote rank
Reached(f, l) ==
  IF FoundOwner(l) /\ l.arg[6] # f.mpirank
    THEN {<<l.arg[6], ghost_gtreeid(f, l.arg[2]), l.arg[3]>>}
    ELSE {}

\* C19: the remote store is empty when the scan starts; find_owner is asked
\* for the half face neighbors of a face only if their tree is N >= 0; every
\* answer r for a half face neighbor of a face of the element e of the local
\* tree t adds e under the tree t to the bundle of r if r is not the own
\* rank, and changes nothing else; no other step changes what is stored.
\* So after the construction e is in the bundle of r under t if and only if
\* r is not the own rank and owns a half face neighbor of a face of e with
\* N >= 0, and an element that reaches two ranks is in both bundles.  No
\* bundle is that of the own rank.
C19_RemoteStoreExact ==
  /\ [](\A i \in 1..Len(ghost.remote_ghosts) :
          ghost.remote_ghosts[i].remote_rank # forest.mpirank)
  /\ [](pos.phase \in {"idle", "shared", "coarse", "sort"} => Stored(ghost) = {})
  /\ [][(pos.phase = "scan" /\ pos'.phase = "owner") => last'.arg[5] >= 0]_vars
  /\ [][Stored(ghost') = Stored(ghost) \cup Reached(forest', last')]_vars

\* C20: a rank has at most one bundle, and a bundle holds an element of a
\* tree at most once, however the half face neighbors of the faces of the
\* element are owned: by one remote rank throughout, or by several ranks in
\* turn.
C20_ElementOncePerRank ==
  /\ \A i, j \in 1..Len(ghost.remote_ghosts) :
       ghost.remote_ghosts[i].remote_rank = ghost.remote_ghosts[j].remote_rank => i = j
  /\ \A i \in 1..Len(ghost.remote_ghosts) :
       LET trees == ghost.remote_ghosts[i].remote_trees
       IN \A t1, t2 \in 1..Len(trees) :
            \A e1 \in 1..Len(trees[t1].elements), e2 \in 1..Len(trees[t2].elements) :
              (trees[t1].global_id = trees[t2].global_id
                 /\ trees[t1].elements[e1] = trees[t2].elements[e2])
                => (t1 = t2 /\ e1 = e2)

----------------------------------------------------------------------------

\* a is b with some of its entries left out
RECURSIVE IsSubsequence(_, _)
IsSubsequence(a, b) ==
  IF a = <<>> THEN TRUE
  ELSE IF b = <<>> THEN FALSE
  ELSE IF Head(a) = Head(b) THEN IsSubsequence(Tail(a), Tail(b))
  ELSE IsSubsequence(a, Tail(b))

\* the local trees of the forest that have the global id that the remote
\* tree holds
LocalTreesOf(f, remote_tree) ==
  {itree \in 0..(t8_forest_get_num_local_trees(f) - 1) :
     ghost_gtreeid(f, itree) = locidx_to_gloidx(remote_tree.global_id)}

\* the global ids of the remote trees go up strictly, and the elements of a
\* remote tree are elements of the local tree with its id, in their order,
\* none of them twice in a row
BundleOrdered(f, remote) ==
  LET trees == remote.remote_trees
  IN \A t \in 1..Len(trees) :
       /\ t > 1 => trees[t - 1].global_id < trees[t].global_id
       /\ \E itree \in LocalTreesOf(f, trees[t]) :
            IsSubsequence(trees[t].elements, f.trees[itree + 1])
       /\ \A e \in 2..Len(trees[t].elements) :
            ~ghost_same_element(trees[t].elements[e - 1], trees[t].elements[e])

\* C21: in every bundle the global ids of the remote trees are strictly
\* ascending, and the elements of each remote tree are a subsequence of the
\* elements of that tree in the forest, in storage order, with no two
\* consecutive entries equal in level and linear id.
C21_BundlesOrdered ==
  \A i \in 1..Len(ghost.remote_ghosts) : BundleOrdered(forest, ghost.remote_ghosts[i])

----------------------------------------------------------------------------

\* the bundle of the rank
BundleOf(g, remote_rank) == g.remote_ghosts[remote_index(g, remote_rank)]

\* the latest step called add_remote for a remote rank
AddedRemote(f, l) == FoundOwner(l) /\ l.arg[6] # f.mpirank

\* C27: the global id that a remote tree holds compares equal to the id
\* first_tree + ltree that it was made from, so add_remote finds the tree
\* again: after a call for the local tree ltree the last remote tree of the
\* bundle has that id, and a bundle never has more remote trees than local
\* trees were scanned, whatever the global ids of the local trees are.
C27_RemoteTreeReused ==
  /\ [](\A i \in 1..Len(ghost.remote_ghosts) :
          Len(ghost.remote_ghosts[i].remote_trees) <= pos.itree + 1)
  /\ [][AddedRemote(forest', last') =>
          LET trees == BundleOf(ghost', last'.arg[6]).remote_trees
          IN locidx_to_gloidx(trees[Len(trees)].global_id)
               = ghost_gtreeid(forest', last'.arg[2])]_vars

----------------------------------------------------------------------------

\* the latest call has brought the count of the ghost to zero
LastGhostUnref ==
  last.op \in {"ghost_unref", "ghost_destroy"} /\ pghost = "DANGLING" /\ ghost.rc = 0

\* C22: the unref that brings the count of a ghost to zero releases every
\* buffer that the ghost holds: the structure, its arrays, hash tables and
\* memory pools, the array of remote trees of every bundle and the array of
\* elements of every remote tree.
C22_TeardownReleasesAll ==
  LastGhostUnref =>
    GhostBuffers(ghost) \subseteq {last.res[i] : i \in 1..Len(last.res)}

----------------------------------------------------------------------------

\* C24: a call of t8_forest_ghost_destroy on a ghost with the count 1 ends
\* without a failed assertion and leaves the handle of the caller NULL, and
\* so does the unref that brings the count to zero.
C24_HandleCleared ==
  /\ (last.op = "ghost_destroy" /\ last.arg = <<1>>) =>
       (last.outcome = "ok" /\ pghost = "NULL")
  /\ (last.op = "ghost_unref" /\ ghost.rc = 0) => pghost = "NULL"

----------------------------------------------------------------------------

\* every face neighbor of every tree that set_tree has written is invalid
NeighborsInvalid ==
  \A tree \in InsertedTrees :
    tree.face_neighbors = InvalidNeighbors(t8_eclass_num_faces[tree.eclass])

\* C23: join_faces ends in SC_ABORT in every state of the cmesh and for
\* every argument and leaves the cmesh as it was, so every face neighbor of
\* every inserted tree keeps what set_tree wrote: treeid -1, the class
\* T8_ECLASS_LAST and tree_to_face -1.
C23_JoinFacesUnsupported ==
  /\ [](last.op = "join_faces" => last.outcome = "abort")
  /\ []NeighborsInvalid
  /\ [][last'.op = "join_faces" => cmesh' = cmesh]_vars

\* join_faces was called on a cmesh with a tree that has faces
C23_Witness ==
  /\ last.op = "join_faces" /\ last.outcome = "abort"
  /\ \E tree \in InsertedTrees : tree.treeid = 0 /\ Len(tree.face_neighbors) > 0

----------------------------------------------------------------------------

\* the number of trees in the tree array that have the class
TreesOfClass(eclass) ==
  Cardinality({i \in 1..Len(LocalTrees) : LocalTrees[i].eclass = eclass})

\* C29: the count of every element class is the number of trees in the
\* tree array that have the class, so the counts add up to the number of
\* trees that were inserted, also after set_tree was called again for a
\* tree id; the count of pyramids is above zero only if a tree is a pyramid.
C29_CountsMatchTrees ==
  pcmesh = "VALID" =>
    \A eclass \in EClass : cmesh.num_trees_per_eclass[eclass] = TreesOfClass(eclass)

----------------------------------------------------------------------------

\* C30: the teardown of a cmesh hands to T8_FREE the face neighbors of the
\* trees that set_tree wrote and nothing else: no pointer of a slot of the
\* tree array that set_tree never wrote, and as many arrays as set_tree
\* allocated (one in every call that succeeded), so none stays allocated.
C30_TeardownFreesNeighbors ==
  (last.op = "unref" /\ CmeshTornDown) =>
    /\ last.outcome = "ok"
    /\ \A ti \in 1..Len(last.locals) : last.locals[ti] # "uninit"
    /\ Len(last.locals) = NumSetTree

\* the ranks that have a bundle in the remote store
BundleRanks(g) == {g.remote_ghosts[i].remote_rank : i \in 1..Len(g.remote_ghosts)}

\* remote_processes names the bundles one to one, none for this process,
\* and no bundle and no remote tree is empty
RemoteProcessesExact(g, f) ==
  /\ {g.remote_processes[i] : i \in 1..Len(g.remote_processes)} = BundleRanks(g)
  /\ \A i, j \in 1..Len(g.remote_processes) :
       g.remote_processes[i] = g.remote_processes[j] => i = j
  /\ Cardinality(BundleRanks(g)) = Len(g.remote_ghosts)
  /\ f.mpirank \notin BundleRanks(g)
  /\ \A i \in 1..Len(g.remote_ghosts) :
       /\ g.remote_ghosts[i].remote_trees # <<>>
       /\ \A t \in 1..Len(g.remote_ghosts[i].remote_trees) :
            g.remote_ghosts[i].remote_trees[t].elements # <<>>

\* C28: at every point of the scan remote_processes lists exactly the ranks
\* that have a bundle, each once and never the rank of this process, every
\* bundle has a remote tree and every remote tree an element; and the list
\* is in the order in which the ranks first occurred: a step that finds an
\* owner appends it if it is another process that is not yet in the list,
\* and every other step leaves the list as it is.
C28_RemoteProcessesExact ==
  /\ [](pghost = "VALID" => RemoteProcessesExact(ghost, forest))
  /\ [][(pghost = "VALID" /\ pghost' = "VALID") =>
          ghost'.remote_processes =
            IF /\ AddedRemote(forest, last')
               /\ \A i \in 1..Len(ghost.remote_processes) :
                    ghost.remote_processes[i] # last'.arg[6]
              THEN Append(ghost.remote_processes, last'.arg[6])
              ELSE ghost.remote_processes]_vars

\* the scan has ended with the bundles of two ranks, the later rank first,
\* and one of them has two remote trees
C28_Witness ==
  /\ pghost = "VALID"
  /\ pos.phase = "done"
  /\ ghost.remote_processes = <<2, 0>>
  /\ \E i \in 1..Len(ghost.remote_ghosts) : Len(ghost.remote_ghosts[i].remote_trees) = 2

\* the scan has ended without a face that has children: the forest has no
\* tree, or no element, or every face that was scanned had H = 0
EmptyScanEnd ==
  pghost = "VALID" /\ pos.phase = "cleanup" /\ pos.max_num_face_children = 0

\* C26: when the scan ends on a process without a face with children, the
\* neighbor scheme and the buffer that the clean-up of lines 559-561 uses
\* were set during the scan, and the clean-up ends the construction
\* normally, with an empty remote store and an empty remote_processes.
C26_EmptyRankTerminates ==
  /\ [](EmptyScanEnd => pos.neigh_scheme # "uninit" /\ pos.half_neighbors # "uninit")
  /\ [][EmptyScanEnd =>
          /\ pos'.phase \in {"cleanup", "done"}
          /\ ghost'.remote_ghosts = <<>>
          /\ ghost'.remote_processes = <<>>]_vars

\* the calls of t8_element_destroy that the last step of ghost_create made
Destroyed(l) == IF l.op = "ghost_create" THEN l.res ELSE <<>>

\* C25: the half neighbors that the owner loop hands to the scheme of the
\* neighbor were made by that scheme; and the elements of the buffer are
\* destroyed by the scheme that made them, all of them when the buffer
\* grows and all of them in the clean-up, so each one once.
C25_ScratchSchemeConsistent ==
  /\ [](pos.phase = "owner" => pos.half_neighbors = pos.neigh_scheme)
  /\ [][\A i \in 1..Len(Destroyed(last')) :
          /\ Destroyed(last')[i].count = pos.max_num_face_children
          /\ Destroyed(last')[i].count > 0 =>
               Destroyed(last')[i].scheme = Destroyed(last')[i].elements]_vars

\* the tree array of the cmesh has been allocated
TreeArrayAllocated == pcmesh = "VALID" /\ cmesh.ctrees # <<>>

\* the calls that allocate the tree array (lines 129 and 168)
TreeArrayCalls == {"set_num_trees", "set_partitioned"}

\* C31: once the tree array of a cmesh is allocated, by set_num_trees or by
\* a replicated set_partitioned, every later call that would allocate it
\* fails and leaves the array in place, in replicated and in partitioned
\* mode, also when the array has no slot.
C31_TreeArrayAllocatedOnce ==
  [][(TreeArrayAllocated /\ last'.op \in TreeArrayCalls) =>
       /\ last'.outcome = "fail"
       /\ cmesh'.ctrees = cmesh.ctrees]_vars

============================================================================
